---- MODULE Spec2Model ----
(***************************************************************************)
(* ndarray_base (include/ndarray/ndarray_base.hpp): the shape / strides    *)
(* geometry of an n-dimensional array and the size it requests from the    *)
(* container of the derived class.                                         *)
(*                                                                         *)
(* Sequences are 1-based here and 0-based in the source: the element the   *)
(* source calls v[i] is v[i + 1] below.  Loop counters keep the source's   *)
(* 0-based values.  The element values of the container are not modelled,  *)
(* only its size (the value-taking constructors, lines 115-121 and         *)
(* 130-135, differ from the other two only in the values written).         *)
(* size_type arithmetic is left unbounded: every product formed within the *)
(* bounds below is far from the wrap-around of size_type.                  *)
(***************************************************************************)
EXTENDS Integers, Sequences, FiniteSets, TLC

VARIABLES m_shape, m_strides, dataSize, crashed, ub, lastCall, bcOk, bcResult,
          rtStage, rtStrides

vars == <<m_shape, m_strides, dataSize, crashed, ub, lastCall, bcOk, bcResult,
          rtStage, rtStrides>>

\* ------------------------------------------------------------------ bounds
\* geometry specification (Spec)
MaxRank == 3
MaxDim == 2
MaxStridesLen == 2
MaxGarbage == 2
\* broadcasting specification (BSpec)
MaxSelfRank == 3
MaxCandRank == 2

SeqsUpTo(S, n) == UNION {[1..k -> S] : k \in 0..n}

Layouts == {"row_major", "column_major"}
Shapes == SeqsUpTo(0..MaxDim, MaxRank)
\* explicit strides a caller may pass: <<>>, <<1>>, <<1, 2>>, ...
StridesArgs == {[i \in 1..k |-> i] : k \in 0..MaxStridesLen}
BDims == {1, 3, 4, 5}
SelfShapes == SeqsUpTo(BDims, MaxSelfRank)
CandShapes == SeqsUpTo(BDims, MaxCandRank)

\* ------------------------------------------------- std::vector primitives
\* v.resize(n): keeps the first n elements, value-initialises new ones.
Resize(v, n) == [i \in 1..n |-> IF i <= Len(v) THEN v[i] ELSE 0]

\* m_strides.back() = size_type(1), on a non-empty vector.
SetBackKept(st, v) == st
SetBack(st, v) == [st EXCEPT ![Len(st)] = v]

\* m_strides.front() = size_type(1), on a non-empty vector.
SetFrontKept(st, v) == st
SetFront(st, v) == [st EXCEPT ![1] = v]

\* ------------------------------------------------ reshape(shape, layout)
\* for(i = size - 1; i != 0; --i) m_strides[i - 1] = m_strides[i] * m_shape[i];
RECURSIVE RowLoopShifted(_, _, _)
RowLoopShifted(st, sh, i) ==
    IF i = 0 THEN st
    ELSE RowLoopShifted([st EXCEPT ![i] = st[i + 1] * sh[i]], sh, i - 1)

RECURSIVE RowLoop(_, _, _)
RowLoop(st, sh, i) ==
    IF i = 0 THEN st
    ELSE RowLoop([st EXCEPT ![i] = st[i + 1] * sh[i + 1]], sh, i - 1)

\* for(i = 1; i < size; ++i) m_strides[i] = m_strides[i - 1] * m_shape[i - 1];
RECURSIVE ColLoopShifted(_, _, _)
ColLoopShifted(st, sh, i) ==
    IF ~(i < Len(st)) THEN st
    ELSE ColLoopShifted([st EXCEPT ![i + 1] = st[i] * sh[i + 1]], sh, i + 1)

RECURSIVE ColLoop(_, _, _)
ColLoop(st, sh, i) ==
    IF ~(i < Len(st)) THEN st
    ELSE ColLoop([st EXCEPT ![i + 1] = st[i] * sh[i]], sh, i + 1)

\* the row_major branch, on a shape of rank >= 1; old is m_strides at entry
RowMajorStrides(sh, old) ==
    LET n == Len(sh) IN RowLoop(SetBack(Resize(old, n), 1), sh, n - 1)

\* data().resize(m_strides.front() * m_shape.front())
RowMajorSizeFromBack(st, sh) == st[Len(st)] * sh[Len(sh)]
RowMajorSize(st, sh) == st[1] * sh[1]

\* the column_major branch, on a shape of rank >= 1
ColMajorStrides(sh, old) ==
    LET n == Len(sh) IN ColLoop(SetFront(Resize(old, n), 1), sh, 1)

\* data().resize(m_strides.back() * m_shape.back())
ColMajorSize(st, sh) == st[Len(st)] * sh[Len(sh)]

\* The outcomes of reshape(shape, l) on an object whose strides are old and
\* whose container holds oldSize elements.  On a shape of rank 0 both
\* branches touch back() / front() of the empty m_strides and m_shape
\* (undefined behaviour): the call either aborts after the two vectors were
\* assigned, or runs on and resizes the container to whatever it read.
reshape_layout(shape, l, old, oldSize) ==
    IF Len(shape) = 0
    THEN {[shape |-> shape, strides |-> Resize(old, 0), size |-> oldSize,
           crashed |-> TRUE, ub |-> TRUE]}
         \cup
         {[shape |-> shape, strides |-> Resize(old, 0), size |-> g,
           crashed |-> FALSE, ub |-> TRUE] : g \in 0..MaxGarbage}
    ELSE IF l = "row_major"
    THEN LET st == RowMajorStrides(shape, old) IN
         {[shape |-> shape, strides |-> st, size |-> RowMajorSize(st, shape),
           crashed |-> FALSE, ub |-> FALSE]}
    ELSE LET st == ColMajorStrides(shape, old) IN
         {[shape |-> shape, strides |-> st, size |-> ColMajorSize(st, shape),
           crashed |-> FALSE, ub |-> FALSE]}

\* ----------------------------------------------- reshape(shape, strides)
\* data_size(shape) of ndindex.hpp: the number of elements of a shape.
RECURSIVE data_size(_)
data_size(shape) ==
    IF Len(shape) = 0 THEN 1 ELSE Head(shape) * data_size(Tail(shape))

\* m_strides = strides
AssignStridesSkipped(old, strides) == old
AssignStrides(old, strides) == strides

reshape_strides(shape, strides, old) ==
    [shape |-> shape, strides |-> AssignStrides(old, strides),
     size |-> data_size(shape), crashed |-> FALSE, ub |-> FALSE]

\* ----------------------------------------------------------- operator()
\* data_offset(strides, i0, i1, ...) of ndindex.hpp: sum of i_k * strides[k].
RECURSIVE data_offset(_, _)
data_offset(strides, idx) ==
    IF Len(idx) = 0 \/ Len(strides) = 0 THEN 0
    ELSE Head(idx) * Head(strides) + data_offset(Tail(strides), Tail(idx))

\* ------------------------------------------------------- broadcast_shape
\* ndarray::broadcast_shape(input, output) of ndbroadcast.hpp: align on the
\* trailing dimension, pad the shorter shape with leading 1s, merge the pairs
\* from the outermost to the innermost and stop at the first incompatible one.
\* dimension i (1-based, outermost first) of s padded to rank n with leading 1s
PadLeading(s, n, i) == IF i <= n - Len(s) THEN 1 ELSE s[i - (n - Len(s))]

RECURSIVE MergeFrom(_, _, _, _, _)
MergeFrom(input, output, n, i, acc) ==
    IF i > n THEN [ok |-> TRUE, result |-> acc]
    ELSE LET a == PadLeading(input, n, i)
             b == PadLeading(output, n, i)
         IN IF a = b THEN MergeFrom(input, output, n, i + 1, Append(acc, a))
            ELSE IF a = 1 THEN MergeFrom(input, output, n, i + 1, Append(acc, b))
            ELSE IF b = 1 THEN MergeFrom(input, output, n, i + 1, Append(acc, a))
            ELSE [ok |-> FALSE,
                  result |-> acc \o [k \in 1..(n - i + 1) |-> PadLeading(output, n, i + k - 1)]]

broadcast_shape(input, output) ==
    LET n == IF Len(input) > Len(output) THEN Len(input) ELSE Len(output)
    IN MergeFrom(input, output, n, 1, <<>>)

\* ndarray_base::broadcast_shape(shape): return ndarray::broadcast_shape(m_shape, shape)
member_broadcast_self_dropped(self, shape) == broadcast_shape(shape, shape)
member_broadcast_result_dropped(self, shape) ==
    [ok |-> TRUE, result |-> broadcast_shape(self, shape).result]
member_broadcast_shape(self, shape) == broadcast_shape(self, shape)

\* ------------------------------------------------------------ the object
\* lastCall records the most recent call and its arguments: op is "none"
\* before any constructor ran, "default_ctor", "by_layout" (the layout
\* constructor or reshape(shape, l)), "by_strides" (the strides constructor
\* or reshape(shape, strides)) or "broadcast_shape".  rtStage counts the
\* steps taken of the sequence construct(s, row_major), reshape(s,
\* column_major), reshape(s, row_major) and rtStrides holds the strides the
\* constructor left.
Call(op, shape, l, strides) ==
    [op |-> op, shape |-> shape, layout |-> l, strides |-> strides]

NoCall == Call("none", <<>>, "none", <<>>)

\* The storage of an object no constructor has run on yet.
Init ==
    /\ m_shape = <<>>
    /\ m_strides = <<>>
    /\ dataSize = 0
    /\ crashed = FALSE
    /\ ub = FALSE
    /\ lastCall = NoCall
    /\ bcOk = FALSE
    /\ bcResult = <<>>
    /\ rtStage = 0
    /\ rtStrides = <<>>

Store(r) ==
    /\ m_shape' = r.shape
    /\ m_strides' = r.strides
    /\ dataSize' = r.size
    /\ crashed' = r.crashed
    /\ ub' = r.ub

\* ndarray_base() = default
DefaultConstruct ==
    /\ lastCall.op = "none"
    /\ lastCall' = Call("default_ctor", <<>>, "none", <<>>)
    /\ UNCHANGED <<m_shape, m_strides, dataSize, crashed, ub, bcOk, bcResult,
                   rtStage, rtStrides>>

\* ndarray_base(shape, l): m_shape(0), m_strides(0), then reshape(shape, l)
ConstructLayout(shape, l) ==
    /\ lastCall.op = "none"
    /\ \E r \in reshape_layout(shape, l, <<>>, 0) :
          /\ Store(r)
          /\ rtStage' = IF l = "row_major" /\ ~r.crashed THEN 1 ELSE 0
          /\ rtStrides' = IF l = "row_major" /\ ~r.crashed THEN r.strides ELSE <<>>
    /\ lastCall' = Call("by_layout", shape, l, <<>>)
    /\ UNCHANGED <<bcOk, bcResult>>

\* ndarray_base(shape, strides): m_shape(shape), m_strides(strides),
\* data().resize(data_size(m_shape))
ConstructStrides(shape, strides) ==
    /\ lastCall.op = "none"
    /\ Store(reshape_strides(shape, strides, <<>>))
    /\ lastCall' = Call("by_strides", shape, "none", strides)
    /\ rtStage' = 0
    /\ rtStrides' = <<>>
    /\ UNCHANGED <<bcOk, bcResult>>

\* reshape(shape, l)
ReshapeLayout(shape, l) ==
    /\ lastCall.op # "none"
    /\ ~crashed
    /\ \E r \in reshape_layout(shape, l, m_strides, dataSize) :
          /\ Store(r)
          /\ rtStage' =
                IF r.crashed \/ shape # m_shape THEN 0
                ELSE IF rtStage = 1 /\ l = "column_major" THEN 2
                ELSE IF rtStage = 2 /\ l = "row_major" THEN 3
                ELSE 0
    /\ rtStrides' = IF rtStage' = 0 THEN <<>> ELSE rtStrides
    /\ lastCall' = Call("by_layout", shape, l, <<>>)
    /\ UNCHANGED <<bcOk, bcResult>>

\* reshape(shape, strides)
ReshapeStrides(shape, strides) ==
    /\ lastCall.op # "none"
    /\ ~crashed
    /\ Store(reshape_strides(shape, strides, m_strides))
    /\ lastCall' = Call("by_strides", shape, "none", strides)
    /\ rtStage' = 0
    /\ rtStrides' = <<>>
    /\ UNCHANGED <<bcOk, bcResult>>

\* broadcast_shape(shape): shape is read and overwritten with the result
BroadcastShape(shape) ==
    /\ lastCall.op # "none"
    /\ ~crashed
    /\ \E r \in {member_broadcast_shape(m_shape, shape)} :
          /\ bcOk' = r.ok
          /\ bcResult' = r.result
    /\ lastCall' = Call("broadcast_shape", shape, "none", <<>>)
    /\ UNCHANGED <<m_shape, m_strides, dataSize, crashed, ub, rtStage, rtStrides>>

Next ==
    \/ DefaultConstruct
    \/ \E s \in Shapes, l \in Layouts : ConstructLayout(s, l)
    \/ \E s \in Shapes, t \in StridesArgs : ConstructStrides(s, t)
    \/ \E s \in Shapes, l \in Layouts : ReshapeLayout(s, l)
    \/ \E s \in Shapes, t \in StridesArgs : ReshapeStrides(s, t)

Spec == Init /\ [][Next]_vars

\* Broadcasting: an object built by ndarray_base(shape, row_major), then any
\* number of broadcast_shape calls on it.
BInit ==
    \E s \in SelfShapes : \E r \in reshape_layout(s, "row_major", <<>>, 0) :
        /\ m_shape = r.shape
        /\ m_strides = r.strides
        /\ dataSize = r.size
        /\ crashed = r.crashed
        /\ ub = r.ub
        /\ lastCall = Call("by_layout", s, "row_major", <<>>)
        /\ bcOk = FALSE
        /\ bcResult = <<>>
        /\ rtStage = 0
        /\ rtStrides = <<>>

BNext == \E c \in CandShapes : BroadcastShape(c)

BSpec == BInit /\ [][BNext]_vars

\* ------------------------------------------------------------ properties
\* product of the entries of s (1 for the empty shape)
RECURSIVE ProductUpTo(_, _)
ProductUpTo(s, k) == IF k = 0 THEN 1 ELSE ProductUpTo(s, k - 1) * s[k]
Product(s) == ProductUpTo(s, Len(s))

ByLayout(l) == lastCall.op = "by_layout" /\ lastCall.layout = l
ByStrides == lastCall.op = "by_strides"
GeometryCall == lastCall.op \in {"by_layout", "by_strides"}
HasZero(s) == \E k \in 1..Len(s) : s[k] = 0

\* C1: after the layout constructor or reshape(s, row_major) on a shape s of
\* rank n >= 1, the call has completed, the last stride is 1, every other
\* stride is the next stride times the next extent, and the container was
\* resized to product(s) elements.
C1_RowMajorStrides ==
    (ByLayout("row_major") /\ Len(lastCall.shape) >= 1) =>
        LET n == Len(lastCall.shape) IN
        /\ ~crashed
        /\ m_shape = lastCall.shape
        /\ Len(m_strides) = n
        /\ m_strides[n] = 1
        /\ \A i \in 1..(n - 1) : m_strides[i] = m_strides[i + 1] * m_shape[i + 1]
        /\ dataSize = Product(lastCall.shape)

C1_Witness ==
    /\ ByLayout("row_major")
    /\ m_shape = <<2, 1, 2>>
    /\ m_strides = <<2, 2, 1>>
    /\ dataSize = 4

\* C2: after the layout constructor or reshape(s, column_major) on a shape s
\* of rank n >= 1, the first stride is 1, every other stride is the previous
\* stride times the previous extent, and the container was resized to
\* strides[n-1] * s[n-1] = product(s) elements.
C2_ColumnMajorStrides ==
    (ByLayout("column_major") /\ Len(lastCall.shape) >= 1) =>
        LET n == Len(lastCall.shape) IN
        /\ ~crashed
        /\ m_shape = lastCall.shape
        /\ Len(m_strides) = n
        /\ m_strides[1] = 1
        /\ \A i \in 2..n : m_strides[i] = m_strides[i - 1] * m_shape[i - 1]
        /\ dataSize = m_strides[n] * m_shape[n]
        /\ dataSize = Product(lastCall.shape)

C2_Witness ==
    /\ ByLayout("column_major")
    /\ m_shape = <<2, 1, 2>>
    /\ m_strides = <<1, 2, 2>>
    /\ dataSize = 4

\* C3, as claimed: after any geometry-mutating call, with any arguments, the
\* stored strides are as long as the stored shape.
C3_SameLengthAnyArguments ==
    GeometryCall => Len(m_strides) = Len(m_shape)

\* C3, amended: the stored strides are as long as the stored shape after a
\* call that derived them from a layout, and after a call with explicit
\* strides exactly when the strides passed were as long as the shape passed.
C3_SameLengthWhenArgumentsAgree ==
    /\ lastCall.op = "by_layout" => Len(m_strides) = Len(m_shape)
    /\ ByStrides =>
          /\ m_shape = lastCall.shape
          /\ (Len(m_strides) = Len(m_shape))
                <=> (Len(lastCall.strides) = Len(lastCall.shape))

C3_Witness ==
    /\ ByStrides
    /\ lastCall.shape = <<2, 2>>
    /\ lastCall.strides = <<1, 2>>
    /\ m_shape = <<2, 2>>
    /\ m_strides = <<1, 2>>

\* C4: after any sequence of construct / reshape calls, by layout or by
\* explicit strides, the container holds product(current shape) elements.
C4_BufferSizeIsProduct ==
    (GeometryCall /\ ~crashed) => dataSize = Product(m_shape)

\* C7: after the layout constructor or reshape(s, l) with every extent >= 1,
\* the map from the valid index tuples to offsets is a bijection onto
\* 0 .. product(s) - 1.
ValidIndices(s) ==
    {idx \in [1..Len(s) -> 0..MaxDim] : \A k \in 1..Len(s) : idx[k] < s[k]}

C8_RoundTrip ==
    rtStage = 3 => m_strides = rtStrides

C8_Witness ==
    /\ rtStage = 3
    /\ m_shape = <<2, 1, 2>>
    /\ m_strides = <<2, 2, 1>>
    /\ rtStrides = <<2, 2, 1>>

\* C9: a construct / reshape, by either layout or by explicit strides, on a
\* shape of rank >= 1 with a 0 extent in any position completes without a
\* fault and leaves the container empty.
C9_ZeroExtentEmptyBuffer ==
    (GeometryCall /\ Len(lastCall.shape) >= 1 /\ HasZero(lastCall.shape)) =>
        /\ ~crashed
        /\ ~ub
        /\ m_shape = lastCall.shape
        /\ dataSize = 0

C9_Witness ==
    /\ ByLayout("row_major")
    /\ m_shape = <<2, 0, 2>>
    /\ m_strides = <<0, 2, 1>>
    /\ dataSize = 0

\* C10: reshape(s, l) on the rank-0 shape leaves the strides empty and the
\* container with 1 element, and touches no element of the empty shape and
\* strides vectors.
C10_RankZeroSizedOne ==
    (lastCall.op = "by_layout" /\ Len(lastCall.shape) = 0) =>
        /\ ~crashed
        /\ ~ub
        /\ m_strides = <<>>
        /\ dataSize = 1

\* trailing alignment: the k-th dimension of s counted from the innermost
\* one, 1 where s has no such dimension
FromEnd(s, k) == IF k <= Len(s) THEN s[Len(s) - k + 1] ELSE 1
MaxLen(a, b) == IF Len(a) >= Len(b) THEN Len(a) ELSE Len(b)
Incompatible(a, b) ==
    \E k \in 1..MaxLen(a, b) :
        /\ FromEnd(a, k) # FromEnd(b, k)
        /\ FromEnd(a, k) # 1
        /\ FromEnd(b, k) # 1

\* C5: when every aligned pair of the array's shape and the candidate is
\* compatible, broadcast_shape reports success and the result has the larger
\* rank, each dimension being a if a = b, b if a = 1 and a if b = 1.
C5_BroadcastResult ==
    (lastCall.op = "broadcast_shape" /\ ~Incompatible(m_shape, lastCall.shape)) =>
        /\ bcOk
        /\ Len(bcResult) = MaxLen(m_shape, lastCall.shape)
        /\ \A k \in 1..MaxLen(m_shape, lastCall.shape) :
              LET a == FromEnd(m_shape, k)
                  b == FromEnd(lastCall.shape, k)
              IN FromEnd(bcResult, k) = IF a = b THEN a ELSE IF a = 1 THEN b ELSE a

C5_Witness ==
    /\ lastCall.op = "broadcast_shape"
    /\ m_shape = <<3, 1, 5>>
    /\ lastCall.shape = <<4, 5>>
    /\ bcOk
    /\ bcResult = <<3, 4, 5>>

\* C6: broadcast_shape returns false exactly when some aligned pair has two
\* different sizes neither of which is 1.
C6_BroadcastFailure ==
    lastCall.op = "broadcast_shape" =>
        (bcOk <=> ~Incompatible(m_shape, lastCall.shape))

C6_Witness ==
    /\ lastCall.op = "broadcast_shape"
    /\ m_shape = <<5, 3>>
    /\ lastCall.shape = <<5, 4>>
    /\ ~bcOk

====
